---------------------------- MODULE Spec2Model ----------------------------
(***************************************************************************)
(* A model of main.py: the FastAPI backend that runs the OAuth2            *)
(* authorization-code flow against the WHOOP API and serves an averaged    *)
(* summary of the recovery, workout and sleep collections.                 *)
(*                                                                         *)
(* Python values are written as follows.  A dict is a TLA+ function from   *)
(* its keys (a record); None, where it stands beside strings, is the       *)
(* string None below; a JSON value parsed from an upstream body is a       *)
(* record [type, value]; an unhandled exception ends a request with the    *)
(* framework's 500 response, written [status |-> 500, exception |-> name]. *)
(***************************************************************************)
EXTENDS Integers, Sequences, FiniteSets, TLC

VARIABLES
    TOKEN_STORE,    \* the module-level dict of main.py
    storeBefore,    \* history: TOKEN_STORE when the request handled last arrived
    request,        \* the request handled last (endpoint and query parameters)
    response,       \* the response it got
    outbound,       \* the upstream requests that handler sent, in order
    tokenReply,     \* what the token endpoint answered to it (NoReply if not asked)
    lastConnected,  \* history: the payload of the last callback answered connected = true
    provider,       \* SummarySpec: what the resource endpoints answer
    pc,             \* ConcSpec: where each concurrent /callback request stands
    local,          \* ConcSpec: the local variables of each of them
    result,         \* ConcSpec: the response each of them returned
    lastWrite       \* ConcSpec history: the payload of the last store write

vars == <<TOKEN_STORE, storeBefore, request, response, outbound, tokenReply, lastConnected,
          provider, pc, local, result, lastWrite>>

-----------------------------------------------------------------------------
(* Python values *)

None == "None"

\* bool(s) of a str | None: None and the empty string are false.
Truthy(s) == s # None /\ s # ""

EmptyDict == [k \in {} |-> None]

JsonNull == [type |-> "null"]
JsonArray == [type |-> "array"]          \* a non-empty JSON array
JsonObject(d) == [type |-> "object", value |-> d]

\* bool(v) of a parsed JSON value.
JsonTruthy(v) ==
    CASE v.type = "null" -> FALSE
      [] v.type = "array" -> TRUE
      [] v.type = "object" -> DOMAIN v.value # {}

-----------------------------------------------------------------------------
(* The upstream token endpoint *)

\* The configuration read from the environment, as opaque values.
CLIENT_ID == "WHOOP_CLIENT_ID"
CLIENT_SECRET == "WHOOP_CLIENT_SECRET"
REDIRECT_URI == "WHOOP_REDIRECT_URI"

TOKEN_URL == "https://api.prod.whoop.com/oauth/oauth2/token"
AUTH_URL == "https://api.prod.whoop.com/oauth/oauth2/auth"
API_BASE == "https://api.prod.whoop.com/developer/v2/"

\* Response bodies the token endpoint may send, as raw text.
Bodies == {"{}", "{access_token:abc}", "{access_token:xyz,refresh_token:r1}",
           "{refresh_token:r1}", "null", "[1]", "<html>"}

\* resp.json(): whether the text parses, and the value it parses to.
JsonValid(text) == text # "<html>"

Json(text) ==
    CASE text = "{}" -> JsonObject(EmptyDict)
      [] text = "{access_token:abc}" -> JsonObject([access_token |-> "abc"])
      [] text = "{access_token:xyz,refresh_token:r1}" ->
             JsonObject([access_token |-> "xyz", refresh_token |-> "r1"])
      [] text = "{refresh_token:r1}" -> JsonObject([refresh_token |-> "r1"])
      [] text = "null" -> JsonNull
      [] text = "[1]" -> JsonArray

Statuses == {200, 399, 400}

\* requests.post either raises (timeout, connection failure) or returns a response.
Raised == [raised |-> TRUE]
Replied(status, text) == [raised |-> FALSE, status_code |-> status, text |-> text]
TokenReplies == {Raised} \cup {Replied(s, t) : s \in Statuses, t \in Bodies}
NoReply == [asked |-> FALSE]

-----------------------------------------------------------------------------
(* Responses of the framework *)

JsonResponse(content) == [status |-> 200, json |-> content]
ServerError(exc) == [status |-> 500, exception |-> exc]
RedirectResponse(url) == [status |-> 307, location |-> url]

-----------------------------------------------------------------------------
(* GET / and GET /login *)

root == JsonResponse([status |-> "backend running"])

Nonces == {"n1", "n2"}

login(nonce) ==
    RedirectResponse([url |-> AUTH_URL,
                      response_type |-> "code",
                      client_id |-> CLIENT_ID,
                      redirect_uri |-> REDIRECT_URI,
                      scope |-> "read:recovery read:workout read:sleep",
                      state |-> nonce])

-----------------------------------------------------------------------------
(* GET /callback *)

\* Branch with the code tested before the error.
BranchCodeFirst(code, error) ==
    IF Truthy(code) THEN "exchange"
    ELSE IF Truthy(error) THEN "error" ELSE "missing_code"

\* Branch without the test for a missing code.
BranchNoCodeCheck(code, error) ==
    IF Truthy(error) THEN "error" ELSE "exchange"

\* The branch the handler takes: `if error`, then `if not code`.
Branch(code, error) ==
    IF Truthy(error) THEN "error"
    ELSE IF ~Truthy(code) THEN "missing_code"
    ELSE "exchange"

ErrorResponse(error, error_description, state) ==
    JsonResponse([connected |-> FALSE,
                  error |-> error,
                  error_description |-> error_description,
                  state |-> state])

Hint == "WHOOP redirected here without ?code=. This usually means redirect_uri mismatch or invalid scope/client config."

MissingCodeResponse(state) ==
    JsonResponse([connected |-> FALSE,
                  error |-> "missing_code",
                  hint |-> Hint,
                  state |-> state])

TokenRequest(code) ==
    [method |-> "POST", url |-> TOKEN_URL,
     data |-> [grant_type |-> "authorization_code", code |-> code,
               client_id |-> CLIENT_ID, client_secret |-> CLIENT_SECRET,
               redirect_uri |-> REDIRECT_URI]]

BadRequest == 400

\* StoreWrite as TOKEN_STORE.setdefault("token", payload): the first token stays.
StoreKeepFirst(store, payload) ==
    IF "token" \in DOMAIN store THEN store ELSE ("token" :> payload)

\* StoreWrite as a key-by-key update of the stored payload: the fields of the new
\* payload over those of the old one.
StoreMerge(store, payload) ==
    IF "token" \in DOMAIN store /\ store["token"].type = "object"
       /\ payload.type = "object"
    THEN ("token" :> JsonObject(payload.value @@ store["token"].value))
    ELSE ("token" :> payload)

\* TOKEN_STORE["token"] = payload
StoreWrite(store, payload) == ("token" :> payload)

\* AfterPost with the body parsed and stored before the status is tested.
AfterPostWriteFirst(reply, store) ==
    IF reply.raised THEN [response |-> ServerError("RequestException"), store |-> store]
    ELSE IF ~JsonValid(reply.text)
    THEN [response |-> ServerError("JSONDecodeError"), store |-> store]
    ELSE IF reply.status_code >= BadRequest
    THEN [response |-> JsonResponse([connected |-> FALSE,
                                     token_error |-> reply.status_code,
                                     body |-> reply.text]),
          store |-> StoreWrite(store, Json(reply.text))]
    ELSE [response |-> JsonResponse([connected |-> TRUE]),
          store |-> StoreWrite(store, Json(reply.text))]

\* The handler from the return of requests.post on: the response and the store.
AfterPost(reply, store) ==
    IF reply.raised THEN [response |-> ServerError("RequestException"), store |-> store]
    ELSE IF reply.status_code >= BadRequest
    THEN [response |-> JsonResponse([connected |-> FALSE,
                                     token_error |-> reply.status_code,
                                     body |-> reply.text]),
          store |-> store]
    ELSE IF ~JsonValid(reply.text)
    THEN [response |-> ServerError("JSONDecodeError"), store |-> store]
    ELSE [response |-> JsonResponse([connected |-> TRUE]),
          store |-> StoreWrite(store, Json(reply.text))]

\* The whole handler: response, store, the requests sent, the reply used.
callback(code, error, error_description, state, reply, store) ==
    LET branch == Branch(code, error) IN
    IF branch = "error"
    THEN [response |-> ErrorResponse(error, error_description, state),
          store |-> store, sent |-> <<>>, reply |-> NoReply]
    ELSE IF branch = "missing_code"
    THEN [response |-> MissingCodeResponse(state),
          store |-> store, sent |-> <<>>, reply |-> NoReply]
    ELSE LET after == AfterPost(reply, store) IN
         [response |-> after.response, store |-> after.store,
          sent |-> <<TokenRequest(code)>>, reply |-> reply]

-----------------------------------------------------------------------------
(* The authenticated resource fetch *)

Paths == {"recovery", "activity/workout", "activity/sleep"}

\* The score field summary() reads from the records of each collection.
Field(path) ==
    CASE path = "recovery" -> "recovery_score"
      [] path = "activity/workout" -> "strain"
      [] path = "activity/sleep" -> "sleep_performance_percentage"

\* TOKEN_STORE.get("token"): None (JSON null) when the key is missing.
StoredToken(store) == IF "token" \in DOMAIN store THEN store["token"] ELSE JsonNull

\* Authenticated without the test of the token.
AuthenticatedUnchecked(store) == TRUE

\* `if not token: raise RuntimeError`, negated.

Authenticated(store) == JsonTruthy(StoredToken(store))

Bearer(access_token) == [scheme |-> "Bearer", credentials |-> access_token]

ResourceRequest(path, access_token) ==
    [method |-> "GET", url |-> <<API_BASE, path>>,
     headers |-> [Authorization |-> Bearer(access_token)]]

\* r.raise_for_status() raises for the 4xx and 5xx statuses.
ClientErrorFrom == 400
ServerErrorTo == 600
RaisesForStatus(status) == status >= ClientErrorFrom /\ status < ServerErrorTo

\* A resource endpoint's answer: requests.get raises, or returns a response whose
\* body parses to a JSON object (json) or does not parse (valid = FALSE).
ResourceReplied(status, json) ==
    [raised |-> FALSE, status_code |-> status, valid |-> TRUE, json |-> json]
ResourceInvalid(status) == [raised |-> FALSE, status_code |-> status, valid |-> FALSE]

\* whoop_get(path): the JSON returned or the exception raised, and the request sent.
whoop_get(path, store, reply) ==
    LET token == StoredToken(store) IN
    IF ~Authenticated(store)
    THEN [ok |-> FALSE, exception |-> "RuntimeError: Not authenticated", sent |-> <<>>]
    ELSE IF token.type # "object"
    THEN [ok |-> FALSE, exception |-> "TypeError", sent |-> <<>>]
    ELSE IF "access_token" \notin DOMAIN token.value
    THEN [ok |-> FALSE, exception |-> "KeyError", sent |-> <<>>]
    ELSE LET req == ResourceRequest(path, token.value.access_token) IN
         IF reply.raised
         THEN [ok |-> FALSE, exception |-> "RequestException", sent |-> <<req>>]
         ELSE IF RaisesForStatus(reply.status_code)
         THEN [ok |-> FALSE, exception |-> "HTTPError", sent |-> <<req>>]
         ELSE IF ~reply.valid
         THEN [ok |-> FALSE, exception |-> "JSONDecodeError", sent |-> <<req>>]
         ELSE [ok |-> TRUE, json |-> reply.json, sent |-> <<req>>]

-----------------------------------------------------------------------------
(* GET /whoop/summary *)

Cap == 7

Min(a, b) == IF a < b THEN a ELSE b

\* xs[:n]
Take(xs, n) == SubSeq(xs, 1, Min(Len(xs), n))

\* collection.get("records", [])
Records(collection) ==
    IF "records" \in DOMAIN collection THEN collection.records ELSE <<>>

\* bool(r.get("score")): a missing, null or empty score is false.
HasScore(r) == "score" \in DOMAIN r /\ DOMAIN r.score # {}

\* r["score"][field] raises KeyError for some record the comprehension reads.
ScoresRaise(collection, field) ==
    \E i \in 1..Len(Take(Records(collection), Cap)) :
        /\ HasScore(Records(collection)[i])
        /\ field \notin DOMAIN Records(collection)[i].score

\* Scores with the slice taken after the filter: the first 7 records that have a
\* score.
ScoresCapAfterFilter(collection, field) ==
    LET scored == SelectSeq(Records(collection), HasScore)
        first == Take(scored, Cap)
    IN  [i \in 1..Len(first) |-> first[i].score[field]]

\* [r["score"][field] for r in collection.get("records", [])[:7] if r.get("score")]
Scores(collection, field) ==
    LET first == Take(Records(collection), Cap)
        scored == SelectSeq(first, HasScore)
    IN  [i \in 1..Len(scored) |-> scored[i].score[field]]

RECURSIVE Sum(_)
Sum(xs) == IF xs = <<>> THEN 0 ELSE Head(xs) + Sum(Tail(xs))

\* round(n / d, 1) in tenths, for integers n >= 0 and d > 0: Python rounds the
\* exactly representable ties (x.25, x.75, the only ties of d <= 7) to even.
RoundTenths(n, d) ==
    LET q == (10 * n) \div d
        r == (10 * n) % d
    IN  IF 2 * r < d THEN q
        ELSE IF 2 * r > d THEN q + 1
        ELSE IF q % 2 = 0 THEN q ELSE q + 1

\* A float | None: None, or the number in tenths.
NoAverage == [is_none |-> TRUE]
Average(tenths) == [is_none |-> FALSE, tenths |-> tenths]

\* avg with 0 for the empty list.
avgZeroWhenEmpty(xs) ==
    IF xs # <<>> THEN Average(RoundTenths(Sum(xs), Len(xs))) ELSE Average(0)

\* avg(xs)
avg(xs) == IF xs # <<>> THEN Average(RoundTenths(Sum(xs), Len(xs))) ELSE NoAverage

\* The whole handler, given what each of the three endpoints answers.
summary(store, replies) ==
    LET recovery == whoop_get("recovery", store, replies["recovery"])
        workouts == whoop_get("activity/workout", store, replies["activity/workout"])
        sleep == whoop_get("activity/sleep", store, replies["activity/sleep"])
    IN
    IF ~recovery.ok
    THEN [response |-> ServerError(recovery.exception), sent |-> recovery.sent]
    ELSE IF ~workouts.ok
    THEN [response |-> ServerError(workouts.exception),
          sent |-> recovery.sent \o workouts.sent]
    ELSE IF ~sleep.ok
    THEN [response |-> ServerError(sleep.exception),
          sent |-> recovery.sent \o workouts.sent \o sleep.sent]
    ELSE LET sent == recovery.sent \o workouts.sent \o sleep.sent IN
         IF \/ ScoresRaise(recovery.json, "recovery_score")
            \/ ScoresRaise(workouts.json, "strain")
            \/ ScoresRaise(sleep.json, "sleep_performance_percentage")
         THEN [response |-> ServerError("KeyError"), sent |-> sent]
         ELSE LET rec_scores == Scores(recovery.json, "recovery_score")
                  strain_scores == Scores(workouts.json, "strain")
                  sleep_perf == Scores(sleep.json, "sleep_performance_percentage")
              IN  [response |->
                       JsonResponse([averages |-> [recovery |-> avg(rec_scores),
                                                   strain |-> avg(strain_scores),
                                                   sleep |-> avg(sleep_perf)],
                                     recovery |-> rec_scores,
                                     strain |-> strain_scores,
                                     sleep |-> sleep_perf]),
                   sent |-> sent]

-----------------------------------------------------------------------------
(* The requests a client may send and the answers upstream may give *)

Codes == {None, "", "c1", "c2"}
Errors == {None, "", "access_denied"}
Descriptions == {None, "user denied"}
States == {None, "s1"}

ScoreValues == {0, 7}

\* Records of a collection: not yet scored, scored, with an empty score, and with a
\* score that lacks the field read.
Unscored == [score_state |-> "PENDING_SCORE"]
Scored(field, v) == [score_state |-> "SCORED", score |-> (field :> v)]
EmptyScore == [score_state |-> "SCORED", score |-> EmptyDict]
ForeignScore == [score_state |-> "SCORED", score |-> [kilojoule |-> 1]]

NoRecordsKey == [next_token |-> None]
Collection(records) == [records |-> records, next_token |-> None]

SmallReplies(path) ==
    {Raised, ResourceInvalid(200), ResourceReplied(401, NoRecordsKey),
     ResourceReplied(200, NoRecordsKey),
     ResourceReplied(200, Collection(<<Scored(Field(path), 7), EmptyScore>>)),
     ResourceReplied(200, Collection(<<ForeignScore>>))}

-----------------------------------------------------------------------------
(* Spec: the requests handled one at a time *)

NoRequest == [endpoint |-> "(none)"]
NoResponse == [status |-> 0]
NoPayload == [type |-> "(none)"]

\* Whether a response is the JSON {"connected": true, ...}.
Connected(resp) ==
    /\ resp.status = 200
    /\ "json" \in DOMAIN resp
    /\ "connected" \in DOMAIN resp.json
    /\ resp.json.connected

Init ==
    /\ TOKEN_STORE = EmptyDict
    /\ storeBefore = EmptyDict
    /\ request = NoRequest
    /\ response = NoResponse
    /\ outbound = <<>>
    /\ tokenReply = NoReply
    /\ lastConnected = NoPayload
    /\ provider = EmptyDict
    /\ pc = EmptyDict
    /\ local = EmptyDict
    /\ result = EmptyDict
    /\ lastWrite = NoPayload

GetRoot ==
    /\ request' = [endpoint |-> "/"]
    /\ response' = root
    /\ outbound' = <<>>
    /\ storeBefore' = TOKEN_STORE
    /\ tokenReply' = NoReply
    /\ UNCHANGED <<TOKEN_STORE, lastConnected, provider, pc, local, result, lastWrite>>

GetLogin ==
    \E nonce \in Nonces :
        /\ request' = [endpoint |-> "/login"]
        /\ response' = login(nonce)
        /\ outbound' = <<>>
        /\ storeBefore' = TOKEN_STORE
        /\ tokenReply' = NoReply
        /\ UNCHANGED <<TOKEN_STORE, lastConnected, provider, pc, local, result,
                       lastWrite>>

GetCallback ==
    \E code \in Codes, error \in Errors, error_description \in Descriptions,
       state \in States :
        \E reply \in IF Branch(code, error) = "exchange" THEN TokenReplies
                     ELSE {Raised} :
            LET r == callback(code, error, error_description, state, reply,
                              TOKEN_STORE)
            IN  /\ request' = [endpoint |-> "/callback", code |-> code,
                               error |-> error,
                               error_description |-> error_description,
                               state |-> state]
                /\ response' = r.response
                /\ TOKEN_STORE' = r.store
                /\ storeBefore' = TOKEN_STORE
                /\ outbound' = r.sent
                /\ tokenReply' = r.reply
                /\ lastConnected' =
                       IF Connected(r.response) THEN Json(reply.text)
                       ELSE lastConnected
                /\ UNCHANGED <<provider, pc, local, result, lastWrite>>

GetSummary ==
    \E r1 \in SmallReplies("recovery"), r2 \in SmallReplies("activity/workout"),
       r3 \in SmallReplies("activity/sleep") :
        LET replies == ("recovery" :> r1) @@ ("activity/workout" :> r2)
                       @@ ("activity/sleep" :> r3)
            r == summary(TOKEN_STORE, replies)
        IN  /\ request' = [endpoint |-> "/whoop/summary"]
            /\ response' = r.response
            /\ outbound' = r.sent
            /\ storeBefore' = TOKEN_STORE
            /\ tokenReply' = NoReply
            /\ UNCHANGED <<TOKEN_STORE, lastConnected, provider, pc, local, result,
                           lastWrite>>

Next == GetRoot \/ GetLogin \/ GetCallback \/ GetSummary

Spec == Init /\ [][Next]_vars

-----------------------------------------------------------------------------
(* SummarySpec: /whoop/summary over the collections the provider holds *)

MaxRecords == 8

RECURSIVE SeqsUpTo(_, _)
SeqsUpTo(S, n) ==
    IF n = 0 THEN {<<>>}
    ELSE LET shorter == SeqsUpTo(S, n - 1)
         IN  shorter \cup {Append(xs, x) : xs \in {ys \in shorter : Len(ys) = n - 1},
                                           x \in S}

Items(path) == {Unscored} \cup {Scored(Field(path), v) : v \in ScoreValues}

\* The collection under study, and the answers of the other two endpoints.
StudiedReplies(path) ==
    {ResourceReplied(200, Collection(rs)) : rs \in SeqsUpTo(Items(path), MaxRecords)}

OtherNoRecords == ResourceReplied(200, NoRecordsKey)
OtherScored(path) ==
    ResourceReplied(200, Collection(<<Scored(Field(path), 7), EmptyScore>>))

SummaryInit ==
    /\ TOKEN_STORE = StoreWrite(EmptyDict, Json("{access_token:abc}"))
    /\ storeBefore = TOKEN_STORE
    /\ lastConnected = Json("{access_token:abc}")
    /\ request = NoRequest
    /\ response = NoResponse
    /\ outbound = <<>>
    /\ tokenReply = NoReply
    /\ \E studied \in Paths :
           \E a \in StudiedReplies(studied) :
               \E others \in {"no records", "scored"} :
                   provider = [p \in Paths |->
                                  IF p = studied THEN a
                                  ELSE IF others = "no records" THEN OtherNoRecords
                                  ELSE OtherScored(p)]
    /\ pc = EmptyDict
    /\ local = EmptyDict
    /\ result = EmptyDict
    /\ lastWrite = NoPayload

GetSummaryOfProvider ==
    LET r == summary(TOKEN_STORE, provider)
    IN  /\ request.endpoint # "/whoop/summary"
        /\ request' = [endpoint |-> "/whoop/summary"]
        /\ response' = r.response
        /\ outbound' = r.sent
        /\ storeBefore' = TOKEN_STORE
        /\ tokenReply' = NoReply
        /\ UNCHANGED <<TOKEN_STORE, lastConnected, provider, pc, local, result,
                       lastWrite>>

SummaryNext == GetSummaryOfProvider

SummarySpec == SummaryInit /\ [][SummaryNext]_vars

-----------------------------------------------------------------------------
(* ConcSpec: /callback requests handled by concurrent threads.  A thread can be *)
(* preempted while requests.post blocks; the store write is one dict assignment. *)

NClients == 2

Clients == 1..NClients

ConcInit ==
    /\ TOKEN_STORE = EmptyDict
    /\ storeBefore = EmptyDict
    /\ request = NoRequest
    /\ response = NoResponse
    /\ outbound = <<>>
    /\ tokenReply = NoReply
    /\ lastConnected = NoPayload
    /\ provider = EmptyDict
    /\ pc = [c \in Clients |-> "start"]
    /\ local = [c \in Clients |-> NoRequest]
    /\ result = [c \in Clients |-> NoResponse]
    /\ lastWrite = NoPayload

\* From the entry of the handler to its return or to the call of requests.post.
CallbackEnter(c) ==
    /\ pc[c] = "start"
    /\ \E code \in Codes, error \in Errors, error_description \in Descriptions,
          state \in States :
           LET branch == Branch(code, error)
               r == callback(code, error, error_description, state, Raised,
                             TOKEN_STORE)
           IN  IF branch = "exchange"
               THEN /\ pc' = [pc EXCEPT ![c] = "post"]
                    /\ local' = [local EXCEPT ![c] = [endpoint |-> "/callback",
                                                      code |-> code]]
                    /\ result' = result
               ELSE /\ pc' = [pc EXCEPT ![c] = "done"]
                    /\ local' = local
                    /\ result' = [result EXCEPT ![c] = r.response]
    /\ UNCHANGED <<TOKEN_STORE, storeBefore, request, response, outbound,
                   tokenReply, lastConnected, provider, lastWrite>>

\* From the return of requests.post to the return of the handler.  The status
\* test and resp.json() read only the thread's own response, so the step is the
\* one store write with the thread-local work before and after it.
CallbackReturn(c) ==
    /\ pc[c] = "post"
    /\ \E reply \in TokenReplies :
           LET after == AfterPost(reply, TOKEN_STORE)
           IN  /\ TOKEN_STORE' = after.store
               /\ result' = [result EXCEPT ![c] = after.response]
               /\ lastWrite' =
                      IF Connected(after.response) THEN Json(reply.text) ELSE lastWrite
    /\ pc' = [pc EXCEPT ![c] = "done"]
    /\ UNCHANGED <<storeBefore, request, response, outbound, tokenReply,
                   lastConnected, provider, local>>

ConcNext == \E c \in Clients : CallbackEnter(c) \/ CallbackReturn(c)

ConcSpec == ConcInit /\ [][ConcNext]_vars

-----------------------------------------------------------------------------
(* Properties *)

IsCallback == request.endpoint = "/callback"
IsSummary == request.endpoint = "/whoop/summary"

\* The response is a 200 with a JSON object that has every key of keys.
JsonWith(resp, keys) ==
    /\ resp.status = 200
    /\ "json" \in DOMAIN resp
    /\ keys \subseteq DOMAIN resp.json

\* The response of the error branch for the request's own parameters.
EchoesError ==
    /\ JsonWith(response, {"connected", "error", "error_description", "state"})
    /\ response.json.connected = FALSE
    /\ response.json.error = request.error
    /\ response.json.error_description = request.error_description
    /\ response.json.state = request.state

\* C1, as stated: a /callback whose error parameter is present (whatever code,
\* error_description and state are) answers connected = false with the error, its
\* description and the state echoed, sends no token request and leaves the token
\* store as it was.
C1_ErrorPresent ==
    (IsCallback /\ request.error # None) =>
        (EchoesError /\ outbound = <<>> /\ TOKEN_STORE = storeBefore)

\* C1, amended: the same for a /callback whose error parameter is present and not
\* the empty string.
C1_ErrorNonEmpty ==
    (IsCallback /\ Truthy(request.error)) =>
        (EchoesError /\ outbound = <<>> /\ TOKEN_STORE = storeBefore)

\* C1's case: access was denied, a code came along, and a token was stored before.
C1_Witness ==
    /\ IsCallback
    /\ request.error = "access_denied"
    /\ request.code = "c1"
    /\ request.state = "s1"
    /\ "token" \in DOMAIN storeBefore
    /\ EchoesError

\* C2: a /callback with neither code nor error answers connected = false, error
\* missing_code, the hint and the state echoed, sends no token request and leaves
\* the token store as it was.
C2_MissingCode ==
    (IsCallback /\ request.code = None /\ request.error = None) =>
        /\ JsonWith(response, {"connected", "error", "hint", "state"})
        /\ response.json.connected = FALSE
        /\ response.json.error = "missing_code"
        /\ response.json.hint = Hint
        /\ response.json.state = request.state
        /\ outbound = <<>>
        /\ TOKEN_STORE = storeBefore

\* C2's case: neither parameter, a state to echo, and a token stored before.
C2_Witness ==
    /\ IsCallback
    /\ request.code = None
    /\ request.error = None
    /\ request.state = "s1"
    /\ "token" \in DOMAIN storeBefore
    /\ response.status = 200

\* C3: a /callback with a code and no error performs exactly one token exchange;
\* when upstream answers with a status >= 400 the response is connected = false
\* with that status and the raw body and the token store keeps its content, and
\* otherwise the store holds the upstream payload and the response is
\* connected = true.  (Stated for the exchanges upstream answers.)
C3_Exchange ==
    (IsCallback /\ Truthy(request.code) /\ ~Truthy(request.error)
     /\ tokenReply # NoReply /\ tokenReply # Raised) =>
        /\ outbound = <<TokenRequest(request.code)>>
        /\ IF tokenReply.status_code >= 400
           THEN /\ JsonWith(response, {"connected", "token_error", "body"})
                /\ response.json.connected = FALSE
                /\ response.json.token_error = tokenReply.status_code
                /\ response.json.body = tokenReply.text
                /\ TOKEN_STORE = storeBefore
           ELSE /\ Connected(response)
                /\ JsonValid(tokenReply.text)
                /\ TOKEN_STORE = ("token" :> Json(tokenReply.text))

\* C4: every /callback ends with a JSON response that carries a boolean
\* `connected`, whatever the parameters and whatever upstream does.
C4_NeverRaises ==
    IsCallback =>
        (JsonWith(response, {"connected"}) /\ response.json.connected \in BOOLEAN)

\* C5: while no /callback has answered connected = true, /whoop/summary fails as
\* unauthenticated, returns no summary and sends no upstream request.
C5_Unauthenticated ==
    (IsSummary /\ lastConnected = NoPayload) =>
        /\ response = ServerError("RuntimeError: Not authenticated")
        /\ outbound = <<>>

\* C5's case: a summary asked for before any successful callback.
C5_Witness ==
    /\ IsSummary
    /\ lastConnected = NoPayload
    /\ response.status = 500

HasAccessToken(payload) ==
    payload.type = "object" /\ "access_token" \in DOMAIN payload.value

\* Every upstream request of the last handler carries Authorization: Bearer <t>.
AllBearer(t) ==
    \A i \in 1..Len(outbound) : outbound[i].headers.Authorization = Bearer(t)

\* C6, as stated: once some /callback has answered connected = true, a resource
\* fetch sends Authorization: Bearer <t>, <t> the access_token of the payload of
\* the most recent such callback.
C6_FetchSendsBearer ==
    (IsSummary /\ lastConnected # NoPayload) =>
        /\ HasAccessToken(lastConnected)
        /\ Len(outbound) >= 1
        /\ AllBearer(lastConnected.value.access_token)

\* C6, amended: that holds when the payload is a JSON object with an access_token;
\* with any other payload the fetch raises before it sends a request.
C6_BearerOfLastConnected ==
    (IsSummary /\ lastConnected # NoPayload) =>
        IF HasAccessToken(lastConnected)
        THEN /\ Len(outbound) >= 1
             /\ AllBearer(lastConnected.value.access_token)
        ELSE /\ outbound = <<>>
             /\ response.status = 500

\* C6's case: three fetches sent with the token of the last successful callback.
C6_Witness ==
    /\ IsSummary
    /\ lastConnected = Json("{access_token:xyz,refresh_token:r1}")
    /\ Len(outbound) = 3
    /\ outbound[3].headers.Authorization = Bearer("xyz")

\* The key of the summary that holds the scores of each collection.
Metric(path) ==
    CASE path = "recovery" -> "recovery"
      [] path = "activity/workout" -> "strain"
      [] path = "activity/sleep" -> "sleep"

\* The positions among the first 7 of the records that have a score.
ScoredPositions(records) == {i \in 1..Len(records) : i <= 7 /\ HasScore(records[i])}

\* The k-th of them in the provider's order.
Position(records, k) ==
    CHOOSE i \in ScoredPositions(records) :
        Cardinality({j \in ScoredPositions(records) : j <= i}) = k

\* C7: each score list of the summary is, in the provider's order, the score of
\* the records among the first 7 that have one; it has at most 7 entries.
C7_FirstSevenScores ==
    IsSummary =>
        /\ JsonWith(response, {"recovery", "strain", "sleep"})
        /\ \A p \in Paths :
               LET recs == Records(provider[p].json)
                   out == response.json[Metric(p)]
               IN  /\ Len(out) = Cardinality(ScoredPositions(recs))
                   /\ Len(out) <= 7
                   /\ \A k \in 1..Len(out) :
                          out[k] = recs[Position(recs, k)].score[Field(p)]

\* C7's case: eight records, one of the first seven without a score, the eighth
\* with one.
C7_Witness ==
    /\ IsSummary
    /\ Len(Records(provider["activity/workout"].json)) = 8
    /\ ~HasScore(Records(provider["activity/workout"].json)[2])
    /\ HasScore(Records(provider["activity/workout"].json)[8])
    /\ Len(response.json.strain) = 6

\* C8: the summary succeeds, and each average is null exactly when its score
\* list is empty.
C8_NullAverage ==
    IsSummary =>
        /\ JsonWith(response, {"averages", "recovery", "strain", "sleep"})
        /\ \A p \in Paths :
               response.json.averages[Metric(p)].is_none
                   <=> (response.json[Metric(p)] = <<>>)

\* C8's case: seven records without a score and an eighth with one give a null
\* average beside a non-null one.
C8_Witness ==
    /\ IsSummary
    /\ Len(Records(provider["recovery"].json)) = 8
    /\ HasScore(Records(provider["recovery"].json)[8])
    /\ response.json.averages.recovery.is_none
    /\ ~response.json.averages.strain.is_none

\* C9: the store holds zero or one token; only a /callback that answers
\* connected = true changes it; a stored token is never removed.
C9_SoleWriter ==
    /\ DOMAIN TOKEN_STORE \subseteq {"token"}
    /\ (TOKEN_STORE # storeBefore) => (IsCallback /\ Connected(response))
    /\ ("token" \in DOMAIN storeBefore) => ("token" \in DOMAIN TOKEN_STORE)

\* C9's case: a failed exchange with a token already stored.
C9_Witness ==
    /\ IsCallback
    /\ JsonWith(response, {"token_error"})
    /\ "token" \in DOMAIN storeBefore
    /\ TOKEN_STORE = storeBefore

AllDone == \A c \in Clients : pc[c] = "done"

\* C10: when the concurrent callbacks have all completed, the store holds the
\* whole payload of the successful exchange written last, and nothing if none
\* succeeded.
C10_LastWriteWins ==
    AllDone =>
        IF lastWrite = NoPayload THEN TOKEN_STORE = EmptyDict
        ELSE TOKEN_STORE = ("token" :> lastWrite)

\* C10's case: one callback succeeded and another one failed at the exchange.
C10_Witness ==
    /\ AllDone
    /\ \E c, d \in Clients :
           /\ Connected(result[c])
           /\ JsonWith(result[d], {"token_error"})
    /\ TOKEN_STORE = ("token" :> Json("{access_token:xyz,refresh_token:r1}"))

=============================================================================
